---- MODULE Spec2Model ----
(***************************************************************************)
(* Decoder configuration and construction of openpifpaf/decoder/factory.py *)
(* as a state machine.                                                     *)
(*                                                                         *)
(* Numbers.  Thresholds and multipliers are Python floats; they are kept   *)
(* here as integers in thousandths (0.001 is 1, 0.2 is 200, 1.0 is 1000).  *)
(* Strides, scales and distances of the multi-scale tables are kept in     *)
(* their own units (pixels); a resolution factor r is kept as 2*r so that  *)
(* 1.5 is the integer 3, and stride*r is (stride * 2r) \div 2, which is    *)
(* exact for the even strides used.                                        *)
(* Python's None is the integer None, a value outside every domain.        *)
(***************************************************************************)
EXTENDS Integers, Sequences, FiniteSets, TLC

None == -1

\* A constructor parameter that is either one scalar or a per-resolution list.
Scalar(x) == [scalar |-> x]
Table(s) == [table |-> s]
IsScalar(p) == DOMAIN p = {"scalar"}
IsTable(p) == DOMAIN p = {"table"}

(***************************************************************************)
(* Values of openpifpaf.data used by the factory.  Only their lengths and  *)
(* the identity of their entries matter here; an edge is a pair of joint   *)
(* indices.                                                                *)
(***************************************************************************)
SkeletonLen == 3
DenserLen == 2

COCO_PERSON_SKELETON == [i \in 1..SkeletonLen |-> <<i, i + 1>>]
DENSER_COCO_PERSON_CONNECTIONS == [i \in 1..DenserLen |-> <<i, i + 2>>]
COCO_KEYPOINTS == [i \in 1..(SkeletonLen + 1) |-> i]

(***************************************************************************)
(* The argument namespace.  cli() declares the options and their defaults; *)
(* the namespace that reaches configure() is any choice of their values.   *)
(***************************************************************************)
SeedThresholds == {0, 200}
InstanceThresholds == {0, 200}
KeypointThresholds == {None, 0, 100}

ThresholdArgs ==
    [seed_threshold : SeedThresholds,
     instance_threshold : InstanceThresholds,
     keypoint_threshold : KeypointThresholds,
     force_complete_pose : BOOLEAN]

\* batch_size None: the namespace has no such attribute (getattr default 1).
OptionArgs ==
    {[paf_th |-> 100, connection_method |-> "blend", pif_th |-> 100,
      greedy |-> FALSE, decoder_workers |-> None, batch_size |-> None,
      debug |-> FALSE, profile_decoder |-> None],
     [paf_th |-> 200, connection_method |-> "max", pif_th |-> 300,
      greedy |-> TRUE, decoder_workers |-> None, batch_size |-> 2,
      debug |-> FALSE, profile_decoder |-> 1],
     [paf_th |-> 100, connection_method |-> "median", pif_th |-> 300,
      greedy |-> FALSE, decoder_workers |-> None, batch_size |-> 2,
      debug |-> TRUE, profile_decoder |-> None]}

DecodeArgs ==
    {[dense_coupling |-> 10, dense_connections |-> FALSE, paf_seeds |-> FALSE,
      multi_scale |-> FALSE, multi_scale_hflip |-> TRUE],
     [dense_coupling |-> 10, dense_connections |-> TRUE, paf_seeds |-> TRUE,
      multi_scale |-> TRUE, multi_scale_hflip |-> FALSE]}

ArgsDomain == {t @@ o @@ d : t \in ThresholdArgs, o \in OptionArgs, d \in DecodeArgs}

\* The namespace of a command line with no options (cli's declared defaults).
DefaultArgs ==
    [seed_threshold |-> 200, instance_threshold |-> 0, keypoint_threshold |-> None,
     force_complete_pose |-> TRUE,
     paf_th |-> 100, connection_method |-> "blend", pif_th |-> 100,
     greedy |-> FALSE, decoder_workers |-> None, batch_size |-> None,
     debug |-> FALSE, profile_decoder |-> None,
     dense_coupling |-> 10, dense_connections |-> FALSE, paf_seeds |-> FALSE,
     multi_scale |-> FALSE, multi_scale_hflip |-> TRUE]

(***************************************************************************)
(* The network handed to the factory: its head names and strides.          *)
(***************************************************************************)
CifHeads == <<"cif">>
CafHeads == <<"cif", "caf", "caf25">>
PafHeads == <<"cif", "paf", "paf25">>

HeadNames ==
    {CifHeads, CafHeads, PafHeads,
     <<>>, <<"cif", "caf">>, <<"cif", "caf25", "caf">>, <<"pif", "paf", "paf25">>}

HeadStrides == {8, 16}

Models == [head_names : HeadNames, head_stride : HeadStrides]

ModelsOfConfig ==
    {[head_names |-> CafHeads, head_stride |-> 8],
     [head_names |-> PafHeads, head_stride |-> 8],
     [head_names |-> <<"cif", "caf">>, head_stride |-> 8]}

NoModel == [head_names |-> <<>>, head_stride |-> 0]

NoValue == [kind |-> "None"]

(***************************************************************************)
(* Class-level settings of the decoder classes: attributes of the classes  *)
(* CifCaf, PafsDijkstra, PifHr and generator.Frontier, shared by every     *)
(* instance in the process.  cli() reads three of them as option defaults. *)
(***************************************************************************)
ClassDefaults ==
    [CifCaf_paf_th |-> 100, CifCaf_connection_method |-> "blend",
     CifCaf_force_complete |-> FALSE,
     PafsDijkstra_paf_th |-> 100, PafsDijkstra_connection_method |-> "blend",
     PafsDijkstra_force_complete |-> FALSE,
     PifHr_v_threshold |-> 100,
     Frontier_keypoint_threshold |-> 0, Frontier_greedy |-> FALSE]

VARIABLES
    cls,     \* the class-level settings
    args,    \* the argument namespace in the caller's hands (configure mutates it)
    call,    \* the last call made: its name and its inputs as they were on entry
    result,  \* how the last call ended: its status and the value it returned
    built    \* the decoder classes that have a live instance

vars == <<cls, args, call, result, built>>

(***************************************************************************)
(* configure(args)                                                         *)
(***************************************************************************)
\* lines 67-78: CifCaf, PafsDijkstra and PifHr take their settings from args.
ConfigureDecoders(c, a) ==
    [c EXCEPT !.CifCaf_paf_th = a.paf_th,
              !.CifCaf_connection_method = a.connection_method,
              !.CifCaf_force_complete = a.force_complete_pose,
              !.PafsDijkstra_paf_th = a.paf_th,
              !.PafsDijkstra_connection_method = a.connection_method,
              !.PafsDijkstra_force_complete = a.force_complete_pose,
              !.PifHr_v_threshold = a.pif_th]

\* Faulty variant of ResolveKeypointThreshold: the default ignores the flag.
DefaultKeypointThresholdAlways(a) ==
    IF a.keypoint_threshold = None
    THEN [a EXCEPT !.keypoint_threshold = 1]
    ELSE a

\* lines 84-85: the default of the keypoint filter depends on force_complete_pose.
ResolveKeypointThreshold(a) ==
    IF a.keypoint_threshold = None
    THEN [a EXCEPT !.keypoint_threshold = IF ~a.force_complete_pose THEN 1 ELSE 0]
    ELSE a

\* Faulty variant of ForceCompleteConsistent: the assertion is missing.
ForceCompleteUnchecked(a) == TRUE

\* lines 88-89: assert args.keypoint_threshold == 0.0 under force_complete_pose.
ForceCompleteConsistent(a) ==
    a.force_complete_pose => a.keypoint_threshold = 0

\* Faulty variant of SeedNotBelowKeypoint: the wrong threshold is compared.
InstanceNotBelowKeypoint(a) == a.instance_threshold >= a.keypoint_threshold

\* line 90: assert args.seed_threshold >= args.keypoint_threshold.
SeedNotBelowKeypoint(a) == a.seed_threshold >= a.keypoint_threshold

\* lines 87-90: both assertions pass.
ConsistencyCheck(a) == ForceCompleteConsistent(a) /\ SeedNotBelowKeypoint(a)

\* lines 93-94: the frontier takes its settings from args.
ConfigureFrontier(c, a) ==
    [c EXCEPT !.Frontier_keypoint_threshold = a.keypoint_threshold,
              !.Frontier_greedy = a.greedy]

\* lines 97-100: one decoder worker per image of the batch, unless debugging.
ResolveDecoderWorkers(a) ==
    IF /\ a.decoder_workers = None
       /\ (IF a.batch_size = None THEN 1 ELSE a.batch_size) > 1
       /\ ~a.debug
    THEN [a EXCEPT !.decoder_workers = a.batch_size]
    ELSE a

\* configure as a whole: the settings and the namespace it leaves, and whether
\* it returned ("ok") or an assertion failed on the way ("AssertionError").
\* visualizer_configure(args) (line 81) touches none of the state modelled.
ConfigureEffect(c, a) ==
    LET c1 == ConfigureDecoders(c, a)
        a1 == ResolveKeypointThreshold(a)
    IN  IF ~ConsistencyCheck(a1)
        THEN [cls |-> c1, args |-> a1, status |-> "AssertionError"]
        ELSE [cls |-> ConfigureFrontier(c1, a1),
              args |-> ResolveDecoderWorkers(a1),
              status |-> "ok"]

(***************************************************************************)
(* factory_decode(model, dense_coupling, dense_connections, paf_seeds,     *)
(*                multi_scale, multi_scale_hflip, **kwargs)                *)
(***************************************************************************)
\* line 143
IsCifHeads(h) == h = CifHeads

\* Faulty variant of IsCafHeads: the names are compared without their order.
IsCafHeadsUnordered(h) ==
    {h[i] : i \in 1..Len(h)} = {CafHeads[i] : i \in 1..Len(CafHeads)}

\* line 146
IsCafHeads(h) == h = CafHeads

\* line 178
IsPafHeads(h) == h = PafHeads

\* Faulty variant of ConfidenceScales: the two comprehensions range over the
\* wrong lists.
ConfidenceScalesSwapped(dense_coupling) ==
    [i \in 1..Len(DENSER_COCO_PERSON_CONNECTIONS) |-> 1000] \o
    [i \in 1..Len(COCO_PERSON_SKELETON) |-> dense_coupling]

\* lines 148-151 and 214-217: 1.0 for every edge of the base skeleton, then
\* dense_coupling for every denser connection.
ConfidenceScales(dense_coupling) ==
    [i \in 1..Len(COCO_PERSON_SKELETON) |-> 1000] \o
    [i \in 1..Len(DENSER_COCO_PERSON_CONNECTIONS) |-> dense_coupling]

\* lines 152 and 226
DenseSkeleton == COCO_PERSON_SKELETON \o DENSER_COCO_PERSON_CONNECTIONS

\* Python's list * 2
Twice(s) == s \o s

\* lines 186 and 199: the resolution factors [1, 1.5, 2, 3, 5], each doubled.
Resolutions2(hflip) ==
    IF hflip THEN Twice(<<2, 3, 4, 6, 10>>) ELSE <<2, 3, 4, 6, 10>>

\* lines 187 and 200: [model.head_strides[-1] * r for r in resolutions]
StrideTable(head_stride, hflip) ==
    [i \in 1..Len(Resolutions2(hflip)) |-> (head_stride * Resolutions2(hflip)[i]) \div 2]

\* lines 188-193 and 201-206: [v * 3 for v in range(n)] or [v * 2 for v in range(n)]
PifIndexTable(hflip, dense_connections) ==
    [i \in 1..(IF hflip THEN 10 ELSE 5) |->
        IF ~dense_connections THEN (i - 1) * 3 ELSE (i - 1) * 2]

\* Faulty variant of PafIndexTable: the dense branch keeps the factor 3.
PafIndexTableStep3(hflip, dense_connections) ==
    [i \in 1..(IF hflip THEN 10 ELSE 5) |-> (i - 1) * 3 + 1]

\* lines 188-193 and 201-206: [v * 3 + 1 for ...] or [v * 2 + 1 for ...]
PafIndexTable(hflip, dense_connections) ==
    [i \in 1..(IF hflip THEN 10 ELSE 5) |->
        IF ~dense_connections THEN (i - 1) * 3 + 1 ELSE (i - 1) * 2 + 1]

\* lines 194 and 207
PifMinScaleTable(hflip) ==
    IF hflip THEN Twice(<<0, 12, 16, 24, 40>>) ELSE <<0, 12, 16, 24, 40>>

\* lines 195 and 208: [v * 3.0 for v in pif_min_scale]
PafMinDistanceTable(hflip) ==
    [i \in 1..Len(PifMinScaleTable(hflip)) |-> PifMinScaleTable(hflip)[i] * 3]

\* lines 196 and 209
PafMaxDistanceTable(hflip) ==
    IF hflip THEN Twice(<<160, 240, 320, 480, None>>) ELSE <<160, 240, 320, 480, None>>

\* lines 179-210: the parameters of the ('cif', 'paf', 'paf25') decoder.
PafHeadParameters(m, kw) ==
    IF kw.multi_scale
    THEN [stride |-> Table(StrideTable(m.head_stride, kw.multi_scale_hflip)),
          pif_index |-> Table(PifIndexTable(kw.multi_scale_hflip, kw.dense_connections)),
          paf_index |-> Table(PafIndexTable(kw.multi_scale_hflip, kw.dense_connections)),
          pif_min_scale |-> Table(PifMinScaleTable(kw.multi_scale_hflip)),
          paf_min_distance |-> Table(PafMinDistanceTable(kw.multi_scale_hflip)),
          paf_max_distance |-> Table(PafMaxDistanceTable(kw.multi_scale_hflip))]
    ELSE [stride |-> Scalar(m.head_stride),
          pif_index |-> Scalar(0),
          paf_index |-> Scalar(1),
          pif_min_scale |-> Scalar(0),
          paf_min_distance |-> Scalar(0),
          paf_max_distance |-> Scalar(None)]

\* lines 143-144
DecodeCif(m, kw) ==
    [kind |-> "Pif", stride |-> Scalar(m.head_stride), head_index |-> 0,
     kwargs |-> kw.kwargs]

\* lines 147-155: the skeleton and the confidence scales of the caf decoder.
CafTopology(kw) ==
    IF kw.dense_connections
    THEN [confidence_scales |-> Table(ConfidenceScales(kw.dense_coupling)),
          skeleton |-> DenseSkeleton]
    ELSE [confidence_scales |-> Scalar(None),
          skeleton |-> COCO_PERSON_SKELETON]

\* lines 146-176
DecodeCaf(m, kw) ==
    IF kw.paf_seeds
    THEN [kind |-> "PafsDijkstra", stride |-> Scalar(m.head_stride),
          paf_index |-> Scalar(1),
          keypoints |-> COCO_KEYPOINTS,
          skeleton |-> CafTopology(kw).skeleton,
          out_skeleton |-> COCO_PERSON_SKELETON,
          confidence_scales |-> CafTopology(kw).confidence_scales,
          kwargs |-> kw.kwargs]
    ELSE [kind |-> "CifCaf", stride |-> Scalar(m.head_stride),
          pif_index |-> Scalar(0), paf_index |-> Scalar(1),
          keypoints |-> COCO_KEYPOINTS,
          skeleton |-> CafTopology(kw).skeleton,
          out_skeleton |-> COCO_PERSON_SKELETON,
          confidence_scales |-> CafTopology(kw).confidence_scales,
          kwargs |-> kw.kwargs]

\* lines 178-241: confidence_scales is passed only with dense connections.
DecodePaf(m, kw) ==
    LET p == PafHeadParameters(m, kw)
        common == [kind |-> "CifCaf", stride |-> p.stride,
                   pif_index |-> p.pif_index, paf_index |-> p.paf_index,
                   pif_min_scale |-> p.pif_min_scale,
                   paf_min_distance |-> p.paf_min_distance,
                   paf_max_distance |-> p.paf_max_distance,
                   keypoints |-> COCO_KEYPOINTS,
                   kwargs |-> kw.kwargs]
    IN  IF kw.dense_connections
        THEN common @@ [skeleton |-> DenseSkeleton,
                        confidence_scales |-> Table(ConfidenceScales(kw.dense_coupling))]
        ELSE common @@ [skeleton |-> COCO_PERSON_SKELETON]

\* factory_decode as a whole: the decoder returned, or the exception of line 243.
FactoryDecode(m, kw) ==
    IF IsCifHeads(m.head_names) THEN [status |-> "ok", value |-> DecodeCif(m, kw)]
    ELSE IF IsCafHeads(m.head_names) THEN [status |-> "ok", value |-> DecodeCaf(m, kw)]
    ELSE IF IsPafHeads(m.head_names) THEN [status |-> "ok", value |-> DecodePaf(m, kw)]
    ELSE [status |-> "Exception", value |-> NoValue]

(***************************************************************************)
(* factory_from_args(args, model)                                          *)
(***************************************************************************)
\* lines 106-111
DebugVisualizer(a) ==
    IF a.debug
    THEN [keypoints |-> COCO_KEYPOINTS, skeleton |-> DenseSkeleton]
    ELSE Scalar(None)

\* lines 113-120: the arguments factory_from_args passes to factory_decode.
DecodeKeywords(a) ==
    [dense_coupling |-> a.dense_coupling,
     dense_connections |-> a.dense_connections,
     paf_seeds |-> a.paf_seeds,
     multi_scale |-> a.multi_scale,
     multi_scale_hflip |-> a.multi_scale_hflip,
     kwargs |-> [seed_threshold |-> a.seed_threshold,
                 debug_visualizer |-> DebugVisualizer(a)]]

\* lines 122-128
Processor(a, decode) ==
    [kind |-> "Processor", decode |-> decode,
     instance_threshold |-> a.instance_threshold,
     keypoint_threshold |-> a.keypoint_threshold,
     debug_visualizer |-> DebugVisualizer(a),
     profile |-> a.profile_decoder,
     worker_pool |-> a.decoder_workers]

(***************************************************************************)
(* The state machine: the calls a program makes on the factory.            *)
(***************************************************************************)
Init ==
    /\ cls = ClassDefaults
    /\ args = DefaultArgs
    /\ call = [op |-> "none"]
    /\ result = [status |-> "none", value |-> NoValue]
    /\ built = {}

\* The caller parses another command line into a fresh namespace.
ParseArgs(a) ==
    /\ args' = a
    /\ call' = [op |-> "parse_args"]
    /\ result' = [status |-> "none", value |-> NoValue]
    /\ UNCHANGED <<cls, built>>

\* configure(args) on the namespace in hand.
Configure ==
    LET e == ConfigureEffect(cls, args)
    IN  /\ cls' = e.cls
        /\ args' = e.args
        /\ call' = [op |-> "configure", args |-> args]
        /\ result' = [status |-> e.status, value |-> NoValue]
        /\ UNCHANGED built

\* factory_from_args(args, model) on the namespace in hand.
FactoryFromArgs(m) ==
    LET e == ConfigureEffect(cls, args)
        d == FactoryDecode(m, DecodeKeywords(e.args))
    IN  /\ cls' = e.cls
        /\ args' = e.args
        /\ call' = [op |-> "factory_from_args", args |-> args, model |-> m]
        /\ IF e.status # "ok"
           THEN /\ result' = [status |-> e.status, value |-> NoValue]
                /\ UNCHANGED built
           ELSE IF d.status # "ok"
           THEN /\ result' = [status |-> d.status, value |-> NoValue]
                /\ UNCHANGED built
           ELSE /\ result' = [status |-> "ok", value |-> Processor(e.args, d.value)]
                /\ built' = built \cup {d.value.kind}

\* factory_decode(model, ...) called directly.
FactoryDecodeCall(m, kw) ==
    LET d == FactoryDecode(m, kw)
    IN  /\ call' = [op |-> "factory_decode", model |-> m, kw |-> kw]
        /\ result' = d
        /\ built' = IF d.status = "ok" THEN built \cup {d.value.kind} ELSE built
        /\ UNCHANGED <<cls, args>>

Next ==
    \/ \E a \in ArgsDomain : ParseArgs(a)
    \/ Configure
    \/ \E m \in ModelsOfConfig : FactoryFromArgs(m)

Spec == Init /\ [][Next]_vars

\* The inputs of direct calls of factory_decode.
DenseCouplings == {0, 10, 1000}

DecodeCalls ==
    [dense_coupling : DenseCouplings,
     dense_connections : BOOLEAN,
     paf_seeds : BOOLEAN,
     multi_scale : BOOLEAN,
     multi_scale_hflip : BOOLEAN,
     kwargs : {[seed_threshold |-> 200, debug_visualizer |-> Scalar(None)]}]

NextDecode == \E m \in Models, kw \in DecodeCalls : FactoryDecodeCall(m, kw)

SpecDecode == Init /\ [][NextDecode]_vars

(***************************************************************************)
(* Properties of configure and factory_from_args, checked under Spec.      *)
(***************************************************************************)
ConfigOps == {"configure", "factory_from_args"}

\* What an instance of a decoder class reads from the class-level settings c:
\* a setting that is not passed to the constructor is looked up on the class.
ObservedSettings(k, c) ==
    IF k = "CifCaf"
    THEN <<c.CifCaf_paf_th, c.CifCaf_connection_method, c.CifCaf_force_complete,
           c.PifHr_v_threshold, c.Frontier_keypoint_threshold, c.Frontier_greedy>>
    ELSE IF k = "PafsDijkstra"
    THEN <<c.PafsDijkstra_paf_th, c.PafsDijkstra_connection_method,
           c.PafsDijkstra_force_complete,
           c.PifHr_v_threshold, c.Frontier_keypoint_threshold, c.Frontier_greedy>>
    ELSE <<c.PifHr_v_threshold>>

\* C1: a Processor's instance threshold is never below its keypoint threshold,
\* and a configuration whose instance threshold is below the resolved keypoint
\* threshold is rejected instead of producing a Processor.
C1_InstanceThresholdNotBelowKeypoint ==
    /\ result.value.kind = "Processor" =>
          result.value.instance_threshold >= result.value.keypoint_threshold
    /\ (call.op \in ConfigOps /\ call.args.instance_threshold < args.keypoint_threshold) =>
          result.status # "ok"

\* C2: force-complete-pose with a keypoint threshold other than 0.0 is fatal:
\* the call ends in an error, returns nothing, builds no decoder, and leaves
\* the supplied keypoint threshold as it was given.
C2_ForceCompleteWithKeypointThresholdIsFatal ==
    /\ [](/\ call.op \in ConfigOps
          /\ call.args.force_complete_pose
          /\ call.args.keypoint_threshold \notin {None, 0}
          => /\ result.status = "AssertionError"
             /\ result.value = NoValue
             /\ args.keypoint_threshold = call.args.keypoint_threshold)
    /\ [][(/\ call'.op \in ConfigOps
           /\ call'.args.force_complete_pose
           /\ call'.args.keypoint_threshold \notin {None, 0})
          => built' = built]_vars

\* C2 witness: factory_from_args was called with force-complete-pose and a
\* keypoint threshold of 0.1 that the seed threshold does not rule out, and failed.
C2_Witness ==
    /\ call.op = "factory_from_args"
    /\ call.args.force_complete_pose
    /\ call.args.keypoint_threshold = 100
    /\ call.args.seed_threshold = 200
    /\ result.status = "AssertionError"

\* C3: an omitted keypoint threshold resolves to 0.001 without
\* force-complete-pose and to 0.0 with it, a supplied one is left unchanged;
\* and configure run again on the same namespace changes neither the
\* namespace nor the class-level settings nor its outcome.
C3_KeypointThresholdDefaultRule ==
    /\ [](call.op \in ConfigOps =>
            args.keypoint_threshold =
                IF call.args.keypoint_threshold # None
                THEN call.args.keypoint_threshold
                ELSE IF call.args.force_complete_pose THEN 0 ELSE 1)
    /\ [][(call.op = "configure" /\ call'.op = "configure") =>
            /\ args' = args
            /\ cls' = cls
            /\ result'.status = result.status]_vars

\* C3 witness: configure has run a second time on a namespace whose keypoint
\* threshold the first run resolved to 0.001 (no command line supplies 0.001).
C3_Witness ==
    /\ call.op = "configure"
    /\ call.args.keypoint_threshold = 1
    /\ ~call.args.force_complete_pose
    /\ args.keypoint_threshold = 1
    /\ result.status = "ok"

\* C5: once a decoder exists, a later factory_from_args call does not change
\* the thresholds and flags that decoder observes.
C5_LaterCallLeavesObservedSettings ==
    [][call'.op = "factory_from_args" =>
          \A k \in built : ObservedSettings(k, cls') = ObservedSettings(k, cls)]_vars

\* C9: a configure call that fails its consistency check leaves every
\* class-level decoder setting as it was before the call.
C9_RejectedConfigurationHasNoEffect ==
    [][(call'.op \in ConfigOps /\ result'.status = "AssertionError") =>
          cls' = cls]_vars

\* C10: after a successful configure the seed threshold is not below the
\* keypoint threshold installed in the frontier, and that installed value is
\* the keypoint threshold factory_from_args hands to the Processor, also when
\* it is called next on the namespace configure has just been run on.
C10_SeedNotBelowFrontierKeypointThreshold ==
    /\ []((call.op \in ConfigOps /\ result.status # "AssertionError") =>
            args.seed_threshold >= cls.Frontier_keypoint_threshold)
    /\ []((call.op = "factory_from_args" /\ result.status = "ok") =>
            result.value.keypoint_threshold = cls.Frontier_keypoint_threshold)
    /\ [][(/\ call.op = "configure" /\ result.status = "ok"
           /\ call'.op = "factory_from_args" /\ result'.status = "ok")
          => result'.value.keypoint_threshold = cls.Frontier_keypoint_threshold]_vars

\* C10 witness: factory_from_args succeeded on a namespace an earlier configure
\* had resolved to 0.001, with a seed threshold of 0.2 and the frontier at 0.001.
C10_Witness ==
    /\ call.op = "factory_from_args"
    /\ call.args.keypoint_threshold = 1
    /\ call.args.seed_threshold = 200
    /\ result.status = "ok"
    /\ result.value.keypoint_threshold = 1
    /\ cls.Frontier_keypoint_threshold = 1

(***************************************************************************)
(* Properties of factory_decode, checked under SpecDecode.                 *)
(***************************************************************************)
\* C4: for the head names that carry association fields, the path assembler
\* (PafsDijkstra) is returned exactly when paf_seeds was requested, and the
\* greedy assembler (CifCaf) otherwise.
C4_AssemblerFollowsPafSeeds ==
    (call.op = "factory_decode" /\ call.model.head_names \in {CafHeads, PafHeads}) =>
        /\ result.status = "ok"
        /\ result.value.kind \in {"PafsDijkstra", "CifCaf"}
        /\ result.value.kind = "PafsDijkstra" <=> call.kw.paf_seeds

\* C6: factory_decode returns one decoder for the head names ('cif',),
\* ('cif', 'caf', 'caf25') and ('cif', 'paf', 'paf25'), and for any other head
\* names it raises and returns nothing, whatever the other flags are.
C6_DispatchIsExhaustive ==
    call.op = "factory_decode" =>
        IF call.model.head_names \in
              {<<"cif">>, <<"cif", "caf", "caf25">>, <<"cif", "paf", "paf25">>}
        THEN /\ result.status = "ok"
             /\ result.value.kind \in {"Pif", "CifCaf", "PafsDijkstra"}
        ELSE /\ result.status = "Exception"
             /\ result.value = NoValue

\* C6 witness: factory_decode was called with the caf head names in another
\* order, with dense connections and paf seeds requested, and raised.
C6_Witness ==
    /\ call.op = "factory_decode"
    /\ call.model.head_names = <<"cif", "caf25", "caf">>
    /\ call.kw.dense_connections
    /\ call.kw.paf_seeds
    /\ result.status = "Exception"

\* C7: with dense connections the decoder gets the base skeleton followed by
\* the denser connections and a confidence scale per edge, 1.0 for a base edge
\* and the dense coupling for a denser one; without them it gets the base
\* skeleton alone and no confidence scales.
C7_DenseTopologyIsConsistent ==
    (call.op = "factory_decode" /\ call.model.head_names \in {CafHeads, PafHeads}) =>
        LET d == result.value
            nBase == Len(COCO_PERSON_SKELETON)
            nDense == Len(DENSER_COCO_PERSON_CONNECTIONS)
        IN  IF call.kw.dense_connections
            THEN /\ Len(d.skeleton) = nBase + nDense
                 /\ SubSeq(d.skeleton, 1, nBase) = COCO_PERSON_SKELETON
                 /\ SubSeq(d.skeleton, nBase + 1, nBase + nDense) =
                        DENSER_COCO_PERSON_CONNECTIONS
                 /\ "confidence_scales" \in DOMAIN d
                 /\ IsTable(d.confidence_scales)
                 /\ Len(d.confidence_scales.table) = Len(d.skeleton)
                 /\ \A i \in 1..Len(d.skeleton) :
                        d.confidence_scales.table[i] =
                            IF i <= nBase THEN 1000 ELSE call.kw.dense_coupling
            ELSE /\ d.skeleton = COCO_PERSON_SKELETON
                 /\ \/ "confidence_scales" \notin DOMAIN d
                    \/ d.confidence_scales = Scalar(None)

\* C7 witness: a decoder was built for the paf head names with dense
\* connections and a dense coupling of 0.01.
C7_Witness ==
    /\ call.op = "factory_decode"
    /\ call.model.head_names = PafHeads
    /\ call.kw.dense_connections
    /\ call.kw.dense_coupling = 10
    /\ result.status = "ok"
    /\ Len(result.value.skeleton) > Len(COCO_PERSON_SKELETON)

\* The six per-resolution parameters of a decoder.
Resolved(d) ==
    <<d.stride, d.pif_index, d.paf_index, d.pif_min_scale,
      d.paf_min_distance, d.paf_max_distance>>

\* C8: with multi-scale, each of the six parameters of the paf decoder is a
\* table with one entry per resolution (5, or 10 with the mirrored pass), the
\* intensity and association field indices are pairwise distinct, and the
\* minimum distance is below the maximum wherever a maximum is set; without
\* multi-scale each of the six is a scalar.
C8_MultiScaleTablesWellFormed ==
    (call.op = "factory_decode" /\ call.model.head_names = PafHeads) =>
        LET d == result.value
            n == IF call.kw.multi_scale_hflip THEN 10 ELSE 5
        IN  IF call.kw.multi_scale
            THEN /\ \A i \in 1..6 : IsTable(Resolved(d)[i]) /\ Len(Resolved(d)[i].table) = n
                 /\ Cardinality({(d.pif_index.table \o d.paf_index.table)[i] :
                                    i \in 1..(2 * n)}) = 2 * n
                 /\ \A i \in 1..n :
                        d.paf_max_distance.table[i] # None =>
                            d.paf_min_distance.table[i] < d.paf_max_distance.table[i]
            ELSE \A i \in 1..6 : IsScalar(Resolved(d)[i])

\* C8 witness: a multi-scale decoder with the mirrored pass and dense
\* connections was built, with ten strides.
C8_Witness ==
    /\ call.op = "factory_decode"
    /\ call.model.head_names = PafHeads
    /\ call.kw.multi_scale
    /\ call.kw.multi_scale_hflip
    /\ call.kw.dense_connections
    /\ result.status = "ok"
    /\ IsTable(result.value.stride)
    /\ Len(result.value.stride.table) = 10

====
